---------------------------- MODULE Spec2Model ----------------------------
(***************************************************************************)
(* go-example-io: a paced, block-sized sequential writer / reader of one   *)
(* file, in its flag-driven revision (Command, --blocks, --block-size,     *)
(* --iter-sleep, --sync).  The earlier revision's runRead and runWrite are *)
(* the same loops with constants for the block size, count and period.    *)
(*                                                                         *)
(* The model follows the goroutine that runs main -> Command.run ->        *)
(* runRead / runWrite statement by statement (pc), together with the three *)
(* things that run beside it: the runtime timer behind time.NewTicker, the *)
(* operating system delivering SIGINT, and the goroutine that turns the    *)
(* signal into a context cancellation.                                     *)
(*                                                                         *)
(* Bytes are abstracted to two values; a file is a sequence of bytes.      *)
(* sha256 is not computed: hasher holds the byte stream absorbed so far,   *)
(* of which the digest is a function.                                      *)
(***************************************************************************)
EXTENDS Integers, Sequences, FiniteSets, TLC

\* ------------------------------------------------------------------ bounds
MaxBlocks == 2
MaxBlockSize == 2
MaxFileLen == 3

Byte == {0, 1}

\* The two revisions of cmd/go-example-io/main.go: "flags" takes the block
\* size, the block count, the period and --sync from flags; "fixed" has them
\* as constants and knows a third mode, "combined".
Revisions == {"flags", "fixed"}

\* flag.String("mode"): absent, the recognised values, anything else
Modes == {"", "read", "write", "combined", "bogus"}
\* the cases of the switch in run
KnownModes(r) == IF r = "fixed" THEN {"read", "write", "combined"}
                               ELSE {"read", "write"}
\* flag.String("path"): absent, or the one path of the model
Paths == {"", "f"}
\* flag.Duration("iter-sleep"): a non-positive and a positive duration
Durations == {0, 1}
\* flag.Bool("sync") is read by runWrite alone (c.syncWrite): it is drawn
\* for the write mode and left at its default otherwise.
\* flag.Int("blocks"), flag.Int("block-size"): Go ints, negative included
BlockCounts == (0 - 1)..MaxBlocks
BlockSizes == (0 - 1)..MaxBlockSize

\* The constants of the "fixed" revision, scaled to the bounds of the model
\* (32768-byte segments, 1048576 bytes in all and 500 ms in the source):
\* IO_TOTAL is a whole number of segments and IO_PERIOD is positive.
IO_SEGMENT == MaxBlockSize - 1
IO_TOTAL == MaxBlocks * IO_SEGMENT
IO_PERIOD == CHOOSE d \in Durations : d > 0

\* the longest file of the model
MaxLen == IF IO_TOTAL > MaxFileLen THEN IO_TOTAL ELSE MaxFileLen

\* the byte strings of length at most n
Contents(n) == UNION {[1..k -> Byte] : k \in 0..n}

Min(a, b) == IF a < b THEN a ELSE b

VARIABLES
  mode, path, iterSleep, blockCount, blockSize, syncWrite,  \* Command
  fileExists, file,        \* the file system at path
  pc,                      \* position of the main goroutine
  op,                      \* the operation Command.run dispatched to
  err,                     \* the error value travelling back to main
  exitCode,                \* -1 while the process runs
  i, totalWritten,         \* runWrite locals
  totalRead, hasher, offset, bytesRead, readErr,  \* runRead locals
  buf,                     \* the transfer buffer, buf[:cap(buf)]
  tickerOn, tickC,         \* time.Ticker and its 1-slot channel
  sigC, listener, ctxDone, \* chan os.Signal, the goroutine, ctx.Done()
  fault,                   \* ghost: the first step the environment failed
  fsTouched,               \* ghost: os.Open / os.Create has been called
  cancelAt,                \* ghost: pc at the moment cancel() ran
  xferAfterCancel,         \* ghost: a tick was taken with ctx already done
  nWaits, nXfers, nDone,   \* ghost: waits completed, transfers started, finished
  tickStale,               \* ghost: the buffered tick fired during a transfer
  staleTaken,              \* ghost: the last wait was released by such a tick
  intLate,                 \* ghost: SIGINT came after the write's last wait
  rev,                     \* which revision of main.go runs
  stage,                   \* position of runCombined ("none" outside it)
  abortedIn                \* ghost: the pause of runCombined that was cancelled

config == <<mode, path, iterSleep, blockCount, blockSize, syncWrite>>
fs == <<fileExists, file>>
wlocals == <<i, totalWritten>>
rlocals == <<totalRead, hasher, offset, bytesRead, readErr>>
timer == <<tickerOn, tickC>>
sig == <<sigC, listener, ctxDone>>
ghost == <<fault, fsTouched, cancelAt, xferAfterCancel>>
counts == <<nWaits, nXfers, nDone>>
hist == <<counts, tickStale, staleTaken, intLate>>
prog == <<rev, stage, abortedIn>>
vars == <<config, fs, pc, op, err, exitCode, wlocals, rlocals, buf, timer,
          sig, ghost, hist, prog>>

\* The ghost counters stop at IterCap: a read with an empty buffer never
\* leaves its loop.
IterCap == (IF MaxBlocks > MaxLen + 1 THEN MaxBlocks ELSE MaxLen + 1) + 1
Inc(n) == IF n < IterCap THEN n + 1 ELSE n

\* the statements of an iteration's transfer
Transferring == {"rand", "write", "read", "hash"}

Init ==
  /\ rev \in Revisions
  /\ mode \in Modes
  /\ path \in Paths
  /\ IF rev = "fixed"
       THEN /\ iterSleep = IO_PERIOD
            /\ blockCount = IO_TOTAL \div IO_SEGMENT
            /\ blockSize = IO_SEGMENT
            /\ syncWrite = FALSE
       ELSE /\ iterSleep \in Durations
            /\ blockCount \in BlockCounts
            /\ blockSize \in BlockSizes
            /\ syncWrite \in (IF mode = "write" THEN BOOLEAN ELSE {FALSE})
  /\ stage = "none"
  /\ abortedIn = "none"
  /\ fileExists \in BOOLEAN
  /\ file \in Contents(MaxFileLen)
  /\ (~fileExists => file = <<>>)
  /\ pc = "main"
  /\ op = "none"
  /\ err = "nil"
  /\ exitCode = 0 - 1
  /\ i = 0
  /\ totalWritten = 0
  /\ totalRead = 0
  /\ hasher = <<>>
  /\ offset = 0
  /\ bytesRead = 0
  /\ readErr = "nil"
  /\ buf = <<>>
  /\ tickerOn = FALSE
  /\ tickC = FALSE
  /\ sigC = FALSE
  /\ listener = "off"
  /\ ctxDone = FALSE
  /\ fault = "none"
  /\ fsTouched = FALSE
  /\ cancelAt = "none"
  /\ xferAfterCancel = FALSE
  /\ nWaits = 0
  /\ nXfers = 0
  /\ nDone = 0
  /\ tickStale = FALSE
  /\ staleTaken = FALSE
  /\ intLate = FALSE

\* ------------------------------------------------------------------- main

\* main, up to the call of command.run: the two log.Fatal checks (exit
\* status 1), then signal.Notify and the start of the listener goroutine.
main ==
  /\ pc = "main"
  /\ IF mode = "" \/ path = ""
       THEN /\ pc' = "exited"
            /\ exitCode' = 1
            /\ err' = "required"
            /\ UNCHANGED listener
       ELSE /\ pc' = "run"
            /\ listener' = "waiting"
            /\ UNCHANGED <<exitCode, err>>
  /\ UNCHANGED <<config, fs, op, wlocals, rlocals, buf, timer, sigC, ctxDone,
                 ghost>>
  /\ UNCHANGED hist
  /\ UNCHANGED prog

\* Mutant of run: an unrecognised mode falls into the write case.
runDefaultWrites ==
  /\ pc = "run"
  /\ IF mode = "read"
       THEN pc' = "runRead" /\ op' = "read" /\ UNCHANGED <<err, stage>>
       ELSE IF mode = "combined" /\ mode \in KnownModes(rev)
         THEN pc' = "pause" /\ stage' = "pause1" /\ UNCHANGED <<err, op>>
         ELSE pc' = "runWrite" /\ op' = "write" /\ UNCHANGED <<err, stage>>
  /\ UNCHANGED <<config, fs, exitCode, wlocals, rlocals, buf, timer, sig,
                 ghost>>
  /\ UNCHANGED hist
  /\ UNCHANGED <<rev, abortedIn>>

\* Command.run / run: the switch on the mode; "combined" is a case of the
\* "fixed" revision only.
run ==
  /\ pc = "run"
  /\ IF mode = "read"
       THEN pc' = "runRead" /\ op' = "read" /\ UNCHANGED <<err, stage>>
       ELSE IF mode = "write"
         THEN pc' = "runWrite" /\ op' = "write" /\ UNCHANGED <<err, stage>>
         ELSE IF mode = "combined" /\ mode \in KnownModes(rev)
           THEN pc' = "pause" /\ stage' = "pause1" /\ UNCHANGED <<err, op>>
           ELSE pc' = "returned" /\ err' = "mode" /\ UNCHANGED <<op, stage>>
  /\ UNCHANGED <<config, fs, exitCode, wlocals, rlocals, buf, timer, sig,
                 ghost>>
  /\ UNCHANGED hist
  /\ UNCHANGED <<rev, abortedIn>>

\* The exit status main gives for the error command.run returned.
ExitStatus(e) == IF e = "nil" THEN 0 ELSE 1

\* main after run returned (in combined mode: after runCombined returned):
\* log the error and os.Exit.
exit ==
  /\ pc = "returned"
  /\ stage \in {"none", "done"}
  /\ pc' = "exited"
  /\ exitCode' = ExitStatus(err)
  /\ UNCHANGED <<config, fs, op, err, wlocals, rlocals, buf, timer, sig,
                 ghost>>
  /\ UNCHANGED hist
  /\ UNCHANGED prog

\* --------------------------------------------------- signal and the timer

\* The operating system delivers SIGINT while the handler is installed:
\* signal.Notify's non-blocking send into c (capacity 1).  Once the
\* listener has taken its one signal nothing receives from c again, so
\* later interrupts change nothing the program reads.
interrupt ==
  /\ listener = "waiting"
  /\ pc # "exited"
  /\ ~sigC
  /\ sigC' = TRUE
  /\ UNCHANGED <<config, fs, pc, op, err, exitCode, wlocals, rlocals, buf,
                 timer, listener, ctxDone, ghost>>
  /\ intLate' = (op = "write" /\ tickerOn /\ nWaits >= blockCount)
  /\ UNCHANGED <<counts, tickStale, staleTaken>>
  /\ UNCHANGED prog

\* The listener goroutine: receive from c, call cancel().  Closing
\* ctx.Done() wakes a goroutine blocked in the select with that case.
listen ==
  /\ listener = "waiting"
  /\ pc # "exited"
  /\ sigC
  /\ sigC' = FALSE
  /\ listener' = "done"
  /\ ctxDone' = TRUE
  /\ cancelAt' = pc
  /\ pc' = IF pc = "parked" THEN "cancel"
           ELSE IF pc = "pauseParked" THEN "pauseCancel" ELSE pc
  /\ UNCHANGED <<config, fs, op, err, exitCode, wlocals, rlocals, buf, timer,
                 fault, fsTouched, xferAfterCancel>>
  /\ UNCHANGED hist
  /\ UNCHANGED prog

\* The first statement of an iteration's transfer.
XferStart(o) == IF o = "write" THEN "rand" ELSE "read"

\* The runtime timer fires: a non-blocking send on ticker.C.  A goroutine
\* blocked in the select receives the tick directly; otherwise the tick is
\* buffered if the slot is free and dropped if it is not.
tick ==
  /\ tickerOn
  /\ pc # "exited"
  /\ IF pc = "parked"
       THEN pc' = XferStart(op) /\ UNCHANGED tickC
       ELSE ~tickC /\ tickC' = TRUE /\ UNCHANGED pc
  /\ UNCHANGED <<config, fs, op, err, exitCode, wlocals, rlocals, buf,
                 tickerOn, sig, ghost>>
  /\ nWaits' = IF pc = "parked" THEN Inc(nWaits) ELSE nWaits
  /\ tickStale' = IF pc = "parked" THEN tickStale ELSE (pc \in Transferring)
  /\ staleTaken' = IF pc = "parked" THEN FALSE ELSE staleTaken
  /\ UNCHANGED <<nXfers, nDone, intLate>>
  /\ UNCHANGED prog

\* The cases of the wait's select that can proceed.
Ready == {c \in {"done", "tick"} : (c = "done" /\ ctxDone) \/ (c = "tick" /\ tickC)}

\* The select of both loops: with no case ready the goroutine blocks; with
\* one or both ready Go picks among the ready cases at random.
selectWait ==
  /\ pc = "select"
  /\ IF Ready = {}
       THEN pc' = "parked" /\ UNCHANGED <<tickC, xferAfterCancel>>
       ELSE \E c \in Ready :
              IF c = "done"
                THEN pc' = "cancel" /\ UNCHANGED <<tickC, xferAfterCancel>>
                ELSE /\ pc' = XferStart(op)
                     /\ tickC' = FALSE
                     /\ xferAfterCancel' = (xferAfterCancel \/ ctxDone)
  /\ UNCHANGED <<config, fs, op, err, exitCode, wlocals, rlocals, buf,
                 tickerOn, sig, fault, fsTouched, cancelAt>>
  /\ nWaits' = IF pc' \in {"rand", "read"} THEN Inc(nWaits) ELSE nWaits
  /\ staleTaken' = (pc' \in {"rand", "read"} /\ tickStale)
  /\ tickStale' = IF pc' \in {"rand", "read"} THEN FALSE ELSE tickStale
  /\ UNCHANGED <<nXfers, nDone, intLate>>
  /\ UNCHANGED prog

\* Mutant of returnCancelled: the case body is a continue, which goes back
\* to the select of the same iteration.
returnCancelledContinues ==
  /\ pc = "cancel"
  /\ pc' = "select"
  /\ UNCHANGED <<config, fs, op, err, exitCode, wlocals, rlocals, buf, timer,
                 sig, ghost>>
  /\ UNCHANGED hist
  /\ UNCHANGED prog

\* case <-ctx.Done(): return errors.Wrap(ctx.Err(), "... cancelled")
returnCancelled ==
  /\ pc = "cancel"
  /\ pc' = "returned"
  /\ err' = "cancelled"
  /\ UNCHANGED <<config, fs, op, exitCode, wlocals, rlocals, buf, timer, sig,
                 ghost>>
  /\ UNCHANGED hist
  /\ UNCHANGED prog

\* ---------------------------------------------------------------- runWrite

\* make([]byte, 0, n): a zeroed backing array of n bytes
Zeros(n) == [k \in 1..n |-> 0]

\* Mutant of LoopNext: the loop condition is i <= c.blockCount.
LoopNextOffByOne(k) == IF k <= blockCount THEN "select" ELSE "sync"

\* Mutant of LoopNext: the wait stands before the loop, not inside it, so
\* the next iteration starts with its transfer.
LoopNextSkipsWait(k) == IF k < blockCount THEN "rand" ELSE "sync"

\* for i := 0; i < c.blockCount; i++ : where the loop goes with counter k
LoopNext(k) == IF k < blockCount THEN "select" ELSE "sync"

\* runWrite up to the loop: os.Create (creates or truncates), then
\* time.NewTicker, which panics on a non-positive interval, then make,
\* which panics on a negative capacity.  A panic ends the process with
\* status 2.
runWriteCreate ==
  /\ pc = "runWrite"
  /\ fsTouched' = TRUE
  /\ \E ok \in BOOLEAN :
       IF ~ok
         THEN /\ pc' = "returned"
              /\ err' = "create"
              /\ fault' = "create"
              /\ UNCHANGED <<fs, exitCode, buf, tickerOn, wlocals>>
         ELSE /\ fileExists' = TRUE
              /\ file' = <<>>
              /\ UNCHANGED fault
              /\ IF iterSleep <= 0 \/ blockSize < 0
                   THEN /\ pc' = "exited"
                        /\ exitCode' = 2
                        /\ err' = "panic"
                        /\ UNCHANGED <<buf, tickerOn, wlocals>>
                   ELSE /\ tickerOn' = TRUE
                        /\ buf' = Zeros(blockSize)
                        /\ i' = 0
                        /\ totalWritten' = 0
                        /\ pc' = LoopNext(0)
                        /\ UNCHANGED <<exitCode, err>>
  /\ UNCHANGED <<config, op, rlocals, tickC, sig, cancelAt, xferAfterCancel>>
  /\ nWaits' = 0 /\ nXfers' = 0 /\ nDone' = 0
  /\ tickStale' = FALSE
  /\ UNCHANGED <<staleTaken, intLate>>
  /\ UNCHANGED prog

\* generateRandomBytes(buf[:cap(buf)]): rand.Read fills the whole buffer
generateRandomBytes ==
  /\ pc = "rand"
  /\ \E ok \in BOOLEAN :
       IF ~ok
         THEN /\ pc' = "returned"
              /\ err' = "rand"
              /\ fault' = "rand"
              /\ UNCHANGED buf
         ELSE /\ \E b \in [1..blockSize -> Byte] : buf' = b
              /\ pc' = "write"
              /\ UNCHANGED <<err, fault>>
  /\ UNCHANGED <<config, fs, op, exitCode, wlocals, rlocals, timer, sig,
                 fsTouched, cancelAt, xferAfterCancel>>
  /\ nXfers' = Inc(nXfers)
  /\ UNCHANGED <<nWaits, nDone, tickStale, staleTaken, intLate>>
  /\ UNCHANGED prog

\* Mutant of fileWrite: the context is checked before the write is issued.
fileWriteChecksCtx ==
  /\ pc = "write"
  /\ IF ctxDone
       THEN /\ pc' = "returned"
            /\ err' = "cancelled"
            /\ UNCHANGED <<file, wlocals, fault>>
       ELSE \E ok \in BOOLEAN :
              IF ~ok
                THEN /\ \E k \in 0..(IF blockSize = 0 THEN 0 ELSE blockSize - 1) :
                          file' = file \o SubSeq(buf, 1, k)
                     /\ pc' = "returned"
                     /\ err' = "write"
                     /\ fault' = "write"
                     /\ UNCHANGED wlocals
                ELSE /\ file' = file \o buf
                     /\ totalWritten' = totalWritten + Len(buf)
                     /\ i' = i + 1
                     /\ pc' = LoopNext(i + 1)
                     /\ UNCHANGED <<err, fault>>
  /\ UNCHANGED <<config, fileExists, op, exitCode, rlocals, buf, timer, sig,
                 fsTouched, cancelAt, xferAfterCancel>>
  /\ nDone' = IF i' # i THEN Inc(nDone) ELSE nDone
  /\ UNCHANGED <<nWaits, nXfers, tickStale, staleTaken, intLate>>
  /\ UNCHANGED prog

\* Mutant of fileWrite: a failed write is issued again.
fileWriteRetries ==
  /\ pc = "write"
  /\ \E ok \in BOOLEAN :
       IF ~ok
         THEN /\ \E k \in 0..(IF blockSize = 0 THEN 0 ELSE blockSize - 1) :
                   file' = file \o SubSeq(buf, 1, k)
              /\ pc' = "write"
              /\ fault' = "write"
              /\ UNCHANGED <<err, wlocals>>
         ELSE /\ file' = file \o buf
              /\ totalWritten' = totalWritten + Len(buf)
              /\ i' = i + 1
              /\ pc' = LoopNext(i + 1)
              /\ UNCHANGED <<err, fault>>
  /\ UNCHANGED <<config, fileExists, op, exitCode, rlocals, buf, timer, sig,
                 fsTouched, cancelAt, xferAfterCancel>>
  /\ nDone' = IF i' # i THEN Inc(nDone) ELSE nDone
  /\ UNCHANGED <<nWaits, nXfers, tickStale, staleTaken, intLate>>
  /\ UNCHANGED prog

\* Mutant of fileWrite: totalWritten = bytesWritten instead of +=.
fileWriteAssignsTotal ==
  /\ pc = "write"
  /\ \E ok \in BOOLEAN :
       IF ~ok
         THEN /\ \E k \in 0..(IF blockSize = 0 THEN 0 ELSE blockSize - 1) :
                   file' = file \o SubSeq(buf, 1, k)
              /\ pc' = "returned"
              /\ err' = "write"
              /\ fault' = "write"
              /\ UNCHANGED wlocals
         ELSE /\ file' = file \o buf
              /\ totalWritten' = Len(buf)
              /\ i' = i + 1
              /\ pc' = LoopNext(i + 1)
              /\ UNCHANGED <<err, fault>>
  /\ UNCHANGED <<config, fileExists, op, exitCode, rlocals, buf, timer, sig,
                 fsTouched, cancelAt, xferAfterCancel>>
  /\ nDone' = IF i' # i THEN Inc(nDone) ELSE nDone
  /\ UNCHANGED <<nWaits, nXfers, tickStale, staleTaken, intLate>>
  /\ UNCHANGED prog

\* file.Write(buf[:cap(buf)]): all of the buffer is appended and n = len,
\* or an error is returned with only the first k < len bytes written
\* (k = 0 for an empty buffer); then totalWritten += bytesWritten and i++.
fileWrite ==
  /\ pc = "write"
  /\ \E ok \in BOOLEAN :
       IF ~ok
         THEN /\ \E k \in 0..(IF blockSize = 0 THEN 0 ELSE blockSize - 1) :
                   file' = file \o SubSeq(buf, 1, k)
              /\ pc' = "returned"
              /\ err' = "write"
              /\ fault' = "write"
              /\ UNCHANGED wlocals
         ELSE /\ file' = file \o buf
              /\ totalWritten' = totalWritten + Len(buf)
              /\ i' = i + 1
              /\ pc' = LoopNext(i + 1)
              /\ UNCHANGED <<err, fault>>
  /\ UNCHANGED <<config, fileExists, op, exitCode, rlocals, buf, timer, sig,
                 fsTouched, cancelAt, xferAfterCancel>>
  /\ nDone' = IF i' # i THEN Inc(nDone) ELSE nDone
  /\ UNCHANGED <<nWaits, nXfers, tickStale, staleTaken, intLate>>
  /\ UNCHANGED prog

\* Mutant of writeFinish: the sync branch reports a shadowed, zero total.
writeFinishSyncResets ==
  /\ pc = "sync"
  /\ pc' = "returned"
  /\ IF syncWrite
       THEN /\ totalWritten' = 0
            /\ UNCHANGED i
            /\ \E ok \in BOOLEAN :
                 IF ok THEN UNCHANGED <<err, fault>>
                       ELSE err' = "sync" /\ fault' = "sync"
       ELSE UNCHANGED <<err, fault, wlocals>>
  /\ UNCHANGED <<config, fs, op, exitCode, rlocals, buf, timer, sig,
                 fsTouched, cancelAt, xferAfterCancel>>
  /\ UNCHANGED hist
  /\ UNCHANGED prog

\* Mutant of writeFinish: the context is checked once more after the loop.
writeFinishChecksCtx ==
  /\ pc = "sync"
  /\ pc' = "returned"
  /\ IF ctxDone
       THEN err' = "cancelled" /\ UNCHANGED fault
       ELSE IF syncWrite
         THEN \E ok \in BOOLEAN :
                IF ok THEN UNCHANGED <<err, fault>>
                      ELSE err' = "sync" /\ fault' = "sync"
         ELSE UNCHANGED <<err, fault>>
  /\ UNCHANGED <<config, fs, op, exitCode, wlocals, rlocals, buf, timer, sig,
                 fsTouched, cancelAt, xferAfterCancel>>
  /\ UNCHANGED hist
  /\ UNCHANGED prog

\* After the loop: file.Sync() when c.syncWrite, the summary line, return nil
writeFinish ==
  /\ pc = "sync"
  /\ pc' = "returned"
  /\ IF syncWrite
       THEN \E ok \in BOOLEAN :
              IF ok THEN UNCHANGED <<err, fault>>
                    ELSE err' = "sync" /\ fault' = "sync"
       ELSE UNCHANGED <<err, fault>>
  /\ UNCHANGED <<config, fs, op, exitCode, wlocals, rlocals, buf, timer, sig,
                 fsTouched, cancelAt, xferAfterCancel>>
  /\ UNCHANGED hist
  /\ UNCHANGED prog

\* ----------------------------------------------------------------- runRead

\* runRead up to the loop: os.Open (fails when there is no file, or for any
\* other cause), sha256.New, time.NewTicker (a new ticker with an empty
\* channel of its own), make.
runReadOpen ==
  /\ pc = "runRead"
  /\ fsTouched' = TRUE
  /\ \E ok \in {b \in BOOLEAN : b => fileExists} :
       IF ~ok
         THEN /\ pc' = "returned"
              /\ err' = "open"
              /\ fault' = "open"
              /\ UNCHANGED <<exitCode, buf, tickerOn, rlocals>>
         ELSE /\ UNCHANGED fault
              /\ IF iterSleep <= 0 \/ blockSize < 0
                   THEN /\ pc' = "exited"
                        /\ exitCode' = 2
                        /\ err' = "panic"
                        /\ UNCHANGED <<buf, tickerOn, rlocals>>
                   ELSE /\ tickerOn' = TRUE
                        /\ buf' = Zeros(blockSize)
                        /\ totalRead' = 0
                        /\ hasher' = <<>>
                        /\ offset' = 0
                        /\ pc' = "select"
                        /\ UNCHANGED <<exitCode, err, bytesRead, readErr>>
  /\ tickC' = FALSE
  /\ UNCHANGED <<config, fs, op, wlocals, sig, cancelAt, xferAfterCancel>>
  /\ nWaits' = 0 /\ nXfers' = 0 /\ nDone' = 0
  /\ tickStale' = FALSE
  /\ UNCHANGED <<staleTaken, intLate>>
  /\ UNCHANGED prog

\* What file.Read(b) can return for len(b) = n with rest bytes left before
\* end-of-file: (0, nil) at once for an empty b; otherwise (0, io.EOF) at the
\* end of the file, from 1 to min(n, rest) bytes with a nil error before it,
\* or a read error.
ReadResults(n, rest) ==
  IF n = 0
    THEN {<<0, "nil">>}
    ELSE {<<0, "EIO">>} \cup
         (IF rest = 0 THEN {<<0, "EOF">>}
                      ELSE {<<k, "nil">> : k \in 1..Min(n, rest)})

\* Mutant of IsReadFailure: end-of-file is treated as a failure.
IsReadFailureAnyErr(e) == e # "nil"

\* if err != nil && err != io.EOF
IsReadFailure(e) == e # "nil" /\ e # "EOF"

\* bytesRead, err := file.Read(buf[:cap(buf)]) and the check of err
fileRead ==
  /\ pc = "read"
  /\ \E r \in ReadResults(blockSize, Len(file) - offset) :
       /\ bytesRead' = r[1]
       /\ readErr' = r[2]
       /\ buf' = [k \in 1..blockSize |->
                    IF k <= r[1] THEN file[offset + k] ELSE buf[k]]
       /\ offset' = offset + r[1]
       /\ IF IsReadFailure(r[2])
            THEN /\ pc' = "returned"
                 /\ err' = "read"
                 /\ fault' = "read"
            ELSE /\ pc' = "hash"
                 /\ UNCHANGED <<err, fault>>
  /\ UNCHANGED <<config, fs, op, exitCode, wlocals, totalRead, hasher, timer,
                 sig, fsTouched, cancelAt, xferAfterCancel>>
  /\ nXfers' = Inc(nXfers)
  /\ UNCHANGED <<nWaits, nDone, tickStale, staleTaken, intLate>>
  /\ UNCHANGED prog

\* Mutant of Absorb: the whole buffer is hashed, stale bytes included.
AbsorbWholeBuffer(h, b, n) == h \o b

\* hasher.Write(b[:n]): the stream the digest is taken of grows by b[:n]
Absorb(h, b, n) == h \o SubSeq(b, 1, n)

\* Mutant of hashUpdate: the total grows by the block size, not by the count
\* the read returned.
hashUpdateCountsBlock ==
  /\ pc = "hash"
  /\ totalRead' = totalRead + blockSize
  /\ hasher' = Absorb(hasher, buf, bytesRead)
  /\ pc' = IF readErr = "EOF" THEN "returned" ELSE "select"
  /\ UNCHANGED <<config, fs, op, err, exitCode, wlocals, offset, bytesRead,
                 readErr, buf, timer, sig, ghost>>
  /\ nDone' = Inc(nDone)
  /\ UNCHANGED <<nWaits, nXfers, tickStale, staleTaken, intLate>>
  /\ UNCHANGED prog

\* Mutant of hashUpdate: the read loop also ends after c.blockCount
\* iterations, like the write loop.
hashUpdateStopsAtBlocks ==
  /\ pc = "hash"
  /\ totalRead' = totalRead + bytesRead
  /\ hasher' = Absorb(hasher, buf, bytesRead)
  /\ pc' = IF readErr = "EOF" \/ nDone + 1 >= blockCount
             THEN "returned" ELSE "select"
  /\ UNCHANGED <<config, fs, op, err, exitCode, wlocals, offset, bytesRead,
                 readErr, buf, timer, sig, ghost>>
  /\ nDone' = Inc(nDone)
  /\ UNCHANGED <<nWaits, nXfers, tickStale, staleTaken, intLate>>
  /\ UNCHANGED prog

\* totalRead += bytesRead; hasher.Write(buf[:bytesRead]); break on io.EOF,
\* after which the totals and the digest are logged and nil is returned.
hashUpdate ==
  /\ pc = "hash"
  /\ totalRead' = totalRead + bytesRead
  /\ hasher' = Absorb(hasher, buf, bytesRead)
  /\ pc' = IF readErr = "EOF" THEN "returned" ELSE "select"
  /\ UNCHANGED <<config, fs, op, err, exitCode, wlocals, offset, bytesRead,
                 readErr, buf, timer, sig, ghost>>
  /\ nDone' = Inc(nDone)
  /\ UNCHANGED <<nWaits, nXfers, tickStale, staleTaken, intLate>>
  /\ UNCHANGED prog

\* -------------------------------------------------------------- runCombined

\* where runCombined goes after the pause or the operation of stage st
AfterStage(st) ==
  CASE st = "pause1" -> "write"
    [] st = "write" -> "pause2"
    [] st = "pause2" -> "read"
    [] st = "read" -> "pause3"
    [] OTHER -> "done"

\* The select of a pause is entered: time.After has just been created, so
\* only ctx.Done() can be ready; otherwise the goroutine blocks.
pauseEnter ==
  /\ pc = "pause"
  /\ IF ctxDone
       THEN /\ pc' = "returned"
            /\ err' = "cancelled"
            /\ abortedIn' = stage
            /\ stage' = "done"
       ELSE /\ pc' = "pauseParked"
            /\ UNCHANGED <<err, stage, abortedIn>>
  /\ UNCHANGED <<config, fs, op, exitCode, wlocals, rlocals, buf, timer, sig,
                 ghost, hist, rev>>

\* case <-time.After(IO_COMBINED_PAUSE): the pause is over; runWrite or
\* runRead is called, or, after the last pause, nil is returned.
pauseElapsed ==
  /\ pc = "pauseParked"
  /\ stage' = AfterStage(stage)
  /\ pc' = CASE stage = "pause1" -> "runWrite"
             [] stage = "pause2" -> "runRead"
             [] OTHER -> "returned"
  /\ op' = CASE stage = "pause1" -> "write"
             [] stage = "pause2" -> "read"
             [] OTHER -> op
  /\ UNCHANGED <<config, fs, err, exitCode, wlocals, rlocals, buf, timer, sig,
                 ghost, hist, rev, abortedIn>>

\* Mutant of pauseCancelled: a cancellation of the last pause, with the
\* work done, is not reported.
pauseCancelledLastIsFine ==
  /\ pc = "pauseCancel"
  /\ pc' = "returned"
  /\ err' = IF stage = "pause3" THEN err ELSE "cancelled"
  /\ abortedIn' = stage
  /\ stage' = "done"
  /\ UNCHANGED <<config, fs, op, exitCode, wlocals, rlocals, buf, timer, sig,
                 ghost, hist, rev>>

\* case <-ctx.Done() of a pause: return errors.Wrap(ctx.Err(), "sleeping ...")
pauseCancelled ==
  /\ pc = "pauseCancel"
  /\ pc' = "returned"
  /\ err' = "cancelled"
  /\ abortedIn' = stage
  /\ stage' = "done"
  /\ UNCHANGED <<config, fs, op, exitCode, wlocals, rlocals, buf, timer, sig,
                 ghost, hist, rev>>

\* Mutant of combinedNext: the error of runWrite / runRead is only logged
\* and runCombined goes on.
combinedNextIgnoresErr ==
  /\ pc = "returned"
  /\ stage \in {"write", "read"}
  /\ pc' = "pause"
  /\ stage' = AfterStage(stage)
  /\ UNCHANGED <<config, fs, op, err, exitCode, wlocals, rlocals, buf, timer,
                 sig, ghost, hist, rev, abortedIn>>

\* runCombined after runWrite or runRead returned: a non-nil error is
\* wrapped and returned, otherwise the next pause begins.
combinedNext ==
  /\ pc = "returned"
  /\ stage \in {"write", "read"}
  /\ IF err # "nil"
       THEN stage' = "done" /\ UNCHANGED pc
       ELSE stage' = AfterStage(stage) /\ pc' = "pause"
  /\ UNCHANGED <<config, fs, op, err, exitCode, wlocals, rlocals, buf, timer,
                 sig, ghost, hist, rev, abortedIn>>

Next ==
  \/ main
  \/ run
  \/ exit
  \/ interrupt
  \/ listen
  \/ tick
  \/ selectWait
  \/ returnCancelled
  \/ runWriteCreate
  \/ generateRandomBytes
  \/ fileWrite
  \/ writeFinish
  \/ runReadOpen
  \/ fileRead
  \/ hashUpdate
  \/ pauseEnter
  \/ pauseElapsed
  \/ pauseCancelled
  \/ combinedNext

Spec == Init /\ [][Next]_vars

\* The Go scheduler runs every runnable goroutine and the runtime timer
\* keeps firing; nothing obliges the operating system to send SIGINT.
Fairness ==
  /\ WF_vars(main) /\ WF_vars(run) /\ WF_vars(exit)
  /\ WF_vars(selectWait) /\ WF_vars(returnCancelled)
  /\ WF_vars(runWriteCreate) /\ WF_vars(generateRandomBytes)
  /\ WF_vars(fileWrite) /\ WF_vars(writeFinish)
  /\ WF_vars(runReadOpen) /\ WF_vars(fileRead) /\ WF_vars(hashUpdate)
  /\ WF_vars(tick) /\ WF_vars(listen)
  /\ WF_vars(pauseEnter) /\ WF_vars(pauseElapsed)
  /\ WF_vars(pauseCancelled) /\ WF_vars(combinedNext)

FairSpec == Spec /\ Fairness

\* Go's select chooses uniformly at random among its ready cases, so a case
\* that is ready at infinitely many waits is chosen at one of them.
FairChoiceSpec == FairSpec /\ SF_vars(selectWait /\ pc' = "cancel")

\* ================================================================== claims

Returned == pc \in {"returned", "exited"}
\* the operation ran to its end and returned nil
Completed(o) == op = o /\ Returned /\ err = "nil"
Waiting == {"select", "parked"}

\* C1 as stated: a write that completes without error or cancellation
\* leaves a file of exactly blockCount * blockSize bytes.
C1_ExactlyNxS ==
  Completed("write") => fileExists /\ Len(file) = blockCount * blockSize

\* C1, amended: a write that completes without error or cancellation leaves
\* a file of exactly max(N, 0) * S bytes, whatever the file held before:
\* N * S bytes for every N >= 0, and an empty file for a negative N (the
\* loop body never runs).
C1_WriteLength ==
  Completed("write") =>
    /\ fileExists
    /\ Len(file) = (IF blockCount < 0 THEN 0 ELSE blockCount) * blockSize
    /\ totalWritten = Len(file)

C1_Witness ==
  /\ Completed("write")
  /\ pc = "exited"
  /\ exitCode = 0
  /\ blockCount = MaxBlocks
  /\ blockSize = MaxBlockSize
  /\ Len(file) = MaxBlocks * MaxBlockSize

\* C2: a read that completes reports a total equal to the file's size; at
\* every point of the loop the total is the number of bytes read from the
\* file so far, the count of the read in hand being added exactly once.
C2_ReadTotal ==
  /\ Completed("read") => totalRead = Len(file)
  /\ (op = "read" /\ tickerOn) =>
       totalRead + (IF pc = "hash" THEN bytesRead ELSE 0) = offset

C2_Witness ==
  /\ Completed("read")
  /\ exitCode = 0
  /\ Len(file) = MaxFileLen
  /\ blockSize = 2
  /\ totalRead = MaxFileLen

\* C3: when a read completes, the bytes fed to the hash are exactly the
\* file's content in file order; during the loop they are the prefix of the
\* file consumed so far.
C3_HashedIsFile ==
  /\ Completed("read") => hasher = file
  /\ (op = "read" /\ tickerOn) =>
       hasher = SubSeq(file, 1, offset - (IF pc = "hash" THEN bytesRead ELSE 0))

C3_Witness ==
  /\ Completed("read")
  /\ pc = "exited"
  /\ Len(file) = MaxFileLen
  /\ blockSize = MaxBlockSize
  /\ file[MaxFileLen] = 1
  /\ hasher = file

NoCancelFrom(p, q, e, f, r) ==
  p \in Transferring =>
    /\ q # "cancel"
    /\ e # "cancelled"
    /\ q \in Transferring \cup {"select", "sync", "returned"}
    /\ (q = "returned" => (f # "none" \/ r = "EOF"))

C5_NoCancelMidTransfer == [][NoCancelFrom(pc, pc', err', fault', readErr')]_vars

C5_Witness ==
  /\ cancelAt = "rand"
  /\ ctxDone
  /\ op = "write"
  /\ pc = "select"
  /\ i = 1
  /\ Len(file) = blockSize
  /\ blockSize = MaxBlockSize

\* C6 as stated: every run ends with exit code 0 exactly when the selected
\* operation succeeded and with exit code 1 on any error; no run ends in
\* any other way.
C6_ExitCodes ==
  pc = "exited" => exitCode \in {0, 1} /\ (exitCode = 0 <=> err = "nil")

\* C7: with a configuration error (no mode, no path, or an unrecognised
\* mode) no operation is dispatched, os.Open and os.Create are never
\* called, the file is left as it was, and the run ends with exit code 1.
ConfigError == mode \notin KnownModes(rev) \/ path = ""

C7_ConfigErrorBeforeIO ==
  /\ [](ConfigError =>
          /\ ~fsTouched
          /\ op = "none"
          /\ ~tickerOn
          /\ pc \in {"main", "run", "returned", "exited"}
          /\ (Returned => err \in {"required", "mode"})
          /\ (pc = "exited" => exitCode = 1))
  /\ [][ConfigError => UNCHANGED fs]_vars

C7_Witness ==
  /\ mode = "bogus"
  /\ path = "f"
  /\ pc = "exited"
  /\ exitCode = 1
  /\ err = "mode"
  /\ fileExists
  /\ Len(file) = MaxFileLen

\* C8: the first failure of a step is terminal: the operation returns at
\* once with that cause, and afterwards nothing is retried, no tick is
\* taken, nothing is read, written or synced, and the run exits with 1.
AfterFault ==
  fault # "none" =>
    /\ UNCHANGED <<fs, wlocals, rlocals, buf, err, fault, op>>
    /\ pc' \in {"returned", "exited"}
    /\ (tickC => tickC')

C8_FirstFailureTerminal ==
  /\ [](fault # "none" =>
          /\ err = fault
          /\ Returned
          /\ (pc = "exited" => exitCode = 1))
  /\ [][AfterFault]_vars

C8_Witness ==
  /\ fault = "write"
  /\ err = "write"
  /\ pc = "exited"
  /\ exitCode = 1
  /\ i = 1
  /\ blockCount = MaxBlocks

\* C9 as stated: a read that is not cancelled and meets no I/O error
\* eventually reaches end-of-file and completes, for every file size and
\* every block size.  (A failed read ends the run too, so the run ending or
\* the context being cancelled is what has to happen.)
C9_ReadCompletes ==
  (op = "read" /\ pc = "select") ~> (pc = "exited" \/ ctxDone)

\* C10: reading an empty file feeds nothing to the hash and counts 0 bytes;
\* the end-of-file its first read returns is not an error: the operation
\* returns nil and the run exits with 0.
C10_EmptyFile ==
  (op = "read" /\ Len(file) = 0) =>
    /\ totalRead = 0
    /\ hasher = <<>>
    /\ offset = 0
    /\ readErr = "EOF" =>
         /\ fault = "none"
         /\ (Returned => err = "nil")
         /\ (pc = "exited" => exitCode = 0)

C10_Witness ==
  /\ op = "read"
  /\ fileExists
  /\ Len(file) = 0
  /\ readErr = "EOF"
  /\ pc = "exited"
  /\ exitCode = 0
  /\ totalRead = 0
  /\ hasher = <<>>
  /\ blockSize = MaxBlockSize

\* the bytes a write that runs to its end has written: max(N, 0) * S
WriteTotal == (IF blockCount < 0 THEN 0 ELSE blockCount) * blockSize

\* C11: the total a completed write reports and the length of the file it
\* leaves are the same function of the block count and the block size with
\* --sync as without it; the step that syncs changes neither the counter
\* nor the file.
SyncStepKeeps == pc = "sync" => UNCHANGED <<fs, wlocals>>

C11_SyncKeepsTotals ==
  /\ [](Completed("write") => totalWritten = WriteTotal /\ Len(file) = WriteTotal)
  /\ [][SyncStepKeeps]_vars

C11_Witness ==
  /\ Completed("write")
  /\ syncWrite
  /\ mode = "write"
  /\ pc = "exited"
  /\ exitCode = 0
  /\ blockCount = MaxBlocks
  /\ blockSize = MaxBlockSize
  /\ totalWritten = MaxBlocks * MaxBlockSize

\* C16 as stated, for the block counts N >= 0: in every state of a write
\* the byte counter equals the length of the file, is a whole multiple of
\* the block size and never exceeds N * S; in every state of a read the
\* counter never exceeds the file's size.
C16_CounterAsStated ==
  /\ (op = "write" /\ tickerOn /\ blockCount >= 0) =>
       /\ totalWritten = Len(file)
       /\ totalWritten = i * blockSize
       /\ totalWritten <= blockCount * blockSize
  /\ (op = "read" /\ tickerOn) => totalRead <= Len(file)

\* C16, amended: the byte counter of a write never decreases, is i whole
\* blocks, never exceeds max(N, 0) * S, and equals the length of the file
\* except after a failed file.Write, which may leave up to S - 1 bytes of
\* the failed block in the file uncounted; the byte counter of a read never
\* decreases and never exceeds the file's size.
CountersGrow == totalWritten' >= totalWritten /\ totalRead' >= totalRead

C16_Counters ==
  /\ []((op = "write" /\ tickerOn) =>
          /\ totalWritten = i * blockSize
          /\ i >= 0
          /\ totalWritten <= WriteTotal
          /\ (fault # "write" => Len(file) = totalWritten)
          /\ (fault = "write" =>
                /\ Len(file) >= totalWritten
                /\ Len(file) - totalWritten <= (IF blockSize = 0 THEN 0 ELSE blockSize - 1)))
  /\ []((op = "read" /\ tickerOn) => totalRead <= Len(file))
  /\ [][CountersGrow]_vars

C16_Witness ==
  /\ op = "write"
  /\ fault = "write"
  /\ pc = "exited"
  /\ totalWritten = blockSize
  /\ Len(file) = totalWritten + 1

\* C18: once the context is cancelled the run ends, whatever the
\* configuration: under fair choice among the ready cases of the select the
\* tick case cannot be taken for ever.
C18_CancelledTerminates == ctxDone ~> (pc = "exited")

C18_Witness ==
  /\ ctxDone
  /\ xferAfterCancel
  /\ pc = "exited"
  /\ err = "cancelled"
  /\ exitCode = 1

C14_Sequential ==
  (op # "none" /\ tickerOn /\ nWaits < IterCap) =>
    /\ pc \in {"select", "parked", "cancel", "sync"} =>
         nWaits = nXfers /\ nXfers = nDone
    /\ pc \in {"rand", "read"} => nWaits = nXfers + 1 /\ nXfers = nDone
    /\ pc \in {"write", "hash"} => nWaits = nXfers /\ nXfers = nDone + 1
    /\ nWaits - nXfers \in {0, 1}
    /\ nXfers - nDone \in {0, 1}

C14_Witness ==
  /\ op = "write"
  /\ pc = "sync"
  /\ nWaits = MaxBlocks
  /\ nXfers = MaxBlocks
  /\ nDone = MaxBlocks
  /\ i = MaxBlocks

\* C15 as stated, for the ordinary configurations (positive block size):
\* the tick that releases an iteration's wait always fires after that wait
\* began, never one the ticker delivered while the previous transfer was
\* still in progress.
C15_FullDelay == blockSize > 0 => ~staleTaken

\* C17: if the interrupt arrives only after the write has consumed its last
\* tick, the cancellation is never observed: the write goes on to the
\* optional sync and, unless a write or the sync itself fails, returns nil
\* with N * S bytes written and the run exits with 0.
C17_LateInterrupt ==
  (intLate /\ mode = "write") =>
    /\ pc # "cancel"
    /\ err # "cancelled"
    /\ ~xferAfterCancel
    /\ (Returned /\ fault = "none") =>
         err = "nil" /\ totalWritten = WriteTotal /\ Len(file) = WriteTotal
    /\ (pc = "exited" /\ fault = "none") => exitCode = 0

C17_Witness ==
  /\ intLate
  /\ ctxDone
  /\ cancelAt = "write"
  /\ mode = "write"
  /\ syncWrite
  /\ pc = "exited"
  /\ exitCode = 0
  /\ totalWritten = MaxBlocks * MaxBlockSize

\* the run is the combined mode of the revision that has it
Combined == rev = "fixed" /\ mode = "combined"

\* a step of runCombined after runWrite returned an error: the read is not
\* started and the error stays the one of the write
WriteErrorEnds(e, o, st) ==
  (Combined /\ stage = "write" /\ err # "nil") =>
    /\ e = err
    /\ o = "write"
    /\ st \in {"write", "done"}

\* C13: in combined mode the write runs first and the read second, on the
\* same path: nothing touches the file before the first pause is over, the
\* read is only ever started after the write returned nil with all
\* IO_TOTAL bytes in the file, and when the write fails or is cancelled the
\* read is never started and the run returns the error of the write.
C13_WriteThenRead ==
  /\ [](Combined =>
         /\ stage \in {"none", "pause1"} => (op = "none" /\ ~fsTouched)
         /\ op = "read" =>
              /\ stage \in {"read", "pause3", "done"}
              /\ i = blockCount
              /\ totalWritten = IO_TOTAL
              /\ fault \notin {"create", "rand", "write"}
         /\ pc = "runRead" => (err = "nil" /\ Len(file) = IO_TOTAL)
         /\ (stage = "done" /\ op = "write" /\ abortedIn = "none") =>
              /\ Returned
              /\ err \in {"cancelled", fault}
              /\ err # "nil")
  /\ [][WriteErrorEnds(err', op', stage')]_vars

C13_Witness ==
  /\ Combined
  /\ op = "read"
  /\ stage = "done"
  /\ pc = "exited"
  /\ exitCode = 0
  /\ totalRead = IO_TOTAL
  /\ hasher = file

\* a step taken after a pause of runCombined was cancelled: nothing of the
\* write or of the read moves any more
AbortedStays(f, o, w, r, c) ==
  abortedIn # "none" => (f = fs /\ o = op /\ w = wlocals /\ r = rlocals /\ c = counts)

\* C19: in combined mode a cancellation taken by one of the three pauses
\* makes runCombined return the cancellation error (exit status 1) and no
\* step of the write or of the read is started afterwards: before the
\* write nothing has touched the file, between the two the read is never
\* begun, and after the read the error is returned although the write and
\* the read both completed, with the IO_TOTAL bytes written still in the
\* file.
C19_PauseCancelled ==
  /\ [](abortedIn # "none" =>
         /\ Combined
         /\ Returned
         /\ err = "cancelled"
         /\ stage = "done"
         /\ pc = "exited" => exitCode = 1
         /\ abortedIn = "pause1" => (op = "none" /\ ~fsTouched)
         /\ abortedIn = "pause2" =>
              /\ op = "write"
              /\ fault = "none"
              /\ Len(file) = IO_TOTAL
              /\ nXfers = blockCount
         /\ abortedIn = "pause3" =>
              /\ op = "read"
              /\ fault = "none"
              /\ i = blockCount
              /\ Len(file) = IO_TOTAL
              /\ totalRead = IO_TOTAL
              /\ hasher = file)
  /\ [][AbortedStays(fs', op', wlocals', rlocals', counts')]_vars

C19_Witness ==
  /\ abortedIn = "pause3"
  /\ cancelAt = "pauseParked"
  /\ pc = "exited"
  /\ exitCode = 1
  /\ readErr = "EOF"
  /\ Len(file) = IO_TOTAL

=============================================================================
